---- MODULE Spec2Model ----
(***************************************************************************)
(* Model of caffe's DataLayer (src/caffe/layers/data_layer.cpp): the       *)
(* prefetching data layer with its LEVELDB / LMDB cursors, the HDF5 batch  *)
(* accumulation, the crop / mirror transform of the prefetch thread and    *)
(* the join / copy / relaunch protocol of Forward_cpu.                     *)
(*                                                                         *)
(* Two threads are modelled: the consumer (SetUp, Forward_cpu, the         *)
(* destructor; its position is pc) and the prefetch thread                 *)
(* (InternalThreadEntry; its position is tpc, item_id).  LOG(FATAL) and a  *)
(* failed CHECK abort the process: fatal records which one fired and every *)
(* action is disabled afterwards.                                          *)
(*                                                                         *)
(* pthread_create / pthread_join themselves are assumed to succeed.        *)
(*                                                                         *)
(* The tensor container (Blob) is not part of this file.  Where the file   *)
(* asks a blob without memory for its data pointer (a blob of count 0, or  *)
(* one never reshaped) the container either fails a check there or hands   *)
(* back a null pointer: both outcomes are kept.                            *)
(*                                                                         *)
(* Spec is the layer as a whole; SpecCrop is the cropped copy of the items *)
(* of one pass, element by element.                                        *)
(***************************************************************************)
EXTENDS Integers, Sequences, FiniteSets, TLC

\* ---------------------------------------------------------------- bounds
MaxK == 3          \* records in a LEVELDB / LMDB dataset
MaxBatch == 2      \* data_param().batch_size()
MaxAcquire == 2    \* Forward_cpu calls explored
MaxDim == 3        \* height and width of a record
MaxCrop == 2       \* data_param().crop_size()
MaxSkip == 2       \* data_param().rand_skip()
MaxFiles == 2      \* files named by the HDF5 source list
MaxRows == 3       \* rows in one HDF5 file
MaxHdfBatch == 4   \* hdf5_data_param().batch_size()
MaxChannels == 2   \* channels of a record in the element-wise copy
MaxCopyDim == 4    \* height and width of a record in the element-wise copy

\* ------------------------------------------------------------- constants
Backends == {"LEVELDB", "LMDB", "HDF5", "UNKNOWN"}
DbBackends == {"LEVELDB", "LMDB"}
Phases == {"TRAIN", "TEST"}
\* Values of the 32-bit unsigned generators (caffe_rng_rand, PrefetchRand),
\* written <<hi, lo>> for hi * 2^16 + lo: 0, 1, 2, 2^31 - 1, 2^31, 2^32 - 1.
Half == 256 * 256
RandVals == {<<0, 0>>, <<0, 1>>, <<0, 2>>, <<32767, 65535>>, <<32768, 0>>,
             <<65535, 65535>>}
\* r % n in unsigned 32-bit arithmetic, for 0 < n < 2^15.
URem(r, n) == (((r[1] % n) * (Half % n)) + (r[2] % n)) % n

\* One slot of a batch blob: which record it holds and which production
\* pass wrote it (0: never written; 1 for the LoadNextHdfBatch of SetUp).
\* The data blobs have one slot per sample; the label blobs are kept element
\* by element (num * channels elements), each element a slot.
Rec(f, r) == [file |-> f, row |-> r]
NoRec == Rec(-1, -1)
EmptySlot == [rec |-> NoRec, pass |-> 0]
Blob(n) == [i \in 0 .. (n - 1) |-> EmptySlot]

VARIABLES
  layer_param_,      \* the configuration record (data_param / hdf5_data_param)
  source,            \* what the configured source holds on disk
  ntop,              \* top->size() at SetUp
  pc,                \* position of the consumer thread
  fatal,             \* "none", or the fatal that aborted the process
  output_labels_,
  db_open,           \* the database resources (db_/iter_, mdb_*) are open
  cursor,            \* iter_ / mdb_cursor_: index of the current record
  datum_channels_, datum_height_, datum_width_,
  hdf_filenames_,    \* row count of each listed file, in list order
  hdf_num_files_, hdf_current_file_, hdf_current_row_,
  loaded_so_far,     \* local of LoadNextHdfBatch
  prefetch_data_, prefetch_label_,
  top_data, top_label,
  phase_, prefetch_rng_,
  running,           \* prefetch threads started and not yet exited
  tpc, item_id,      \* position of the prefetch thread
  h_off, w_off, mirrored,  \* locals of the last loop iteration
  launched,          \* CreatePrefetchThread calls so far
  acquired,          \* Forward_cpu calls that returned
  label_channels_,   \* member read by SetUp, assigned nowhere in the file
  blob_shape,        \* (num, channels, height, width) of the five blobs
  datum_data,        \* datum.data(): the chars of the record being copied
  data_mean_,        \* data_mean_.cpu_data()
  scale,             \* data_param().scale()
  top_pixels         \* top_data of the prefetch blob, element by element

cfgvars == <<layer_param_, source, ntop, label_channels_>>
pixvars == <<datum_data, data_mean_, scale, top_pixels>>
hdfvars == <<hdf_filenames_, hdf_num_files_, hdf_current_file_,
             hdf_current_row_, loaded_so_far>>
shapevars == <<datum_channels_, datum_height_, datum_width_>>
threadvars == <<running, tpc, item_id, h_off, w_off, mirrored>>
vars == <<layer_param_, source, ntop, pc, fatal, output_labels_, db_open,
          cursor, datum_channels_, datum_height_, datum_width_,
          hdf_filenames_, hdf_num_files_, hdf_current_file_,
          hdf_current_row_, loaded_so_far, prefetch_data_,
          prefetch_label_, top_data, top_label, phase_, prefetch_rng_,
          running, tpc, item_id, h_off, w_off, mirrored, launched, acquired,
          label_channels_, blob_shape, datum_data, data_mean_, scale,
          top_pixels>>

backend == layer_param_.backend
batch_size == layer_param_.batch_size
crop_size == layer_param_.crop_size
mirror == layer_param_.mirror

\* Shape of a blob that was never reshaped, and the shapes at construction.
NoShape == <<0, 0, 0, 0>>
NoShapes == [top_data |-> NoShape, top_label |-> NoShape,
             prefetch_data_ |-> NoShape, prefetch_label_ |-> NoShape,
             data_mean_ |-> NoShape]
\* No record is being copied element by element.
NoPixels ==
  /\ datum_data = <<>> /\ data_mean_ = <<>> /\ scale = 1 /\ top_pixels = <<>>

\* prefetch_rng_: null, or a generator with its seed and the number of
\* values drawn from it since it was made.
NullRng == [valid |-> FALSE, seed |-> <<0, 0>>, draws |-> 0]
FreshRng(sd) == [valid |-> TRUE, seed |-> sd, draws |-> 0]
\* Values of caffe_rng_rand() explored as seeds.
Seeds == {<<0, 1>>, <<65535, 65535>>}
bufvars == <<prefetch_data_, prefetch_label_>>
topvars == <<top_data, top_label>>

\* LOG(FATAL) / a failed CHECK with no other effect on the modelled state.
Abort(reason) ==
  /\ fatal' = reason
  /\ UNCHANGED <<cfgvars, pixvars, blob_shape,
                 pc, output_labels_, db_open, cursor, shapevars,
                 hdfvars, bufvars, topvars, phase_, prefetch_rng_,
                 threadvars, launched, acquired>>

\* ------------------------------------------------------------ the inputs
\* File lists: the row count of each listed file.
FileLists == UNION {[1 .. n -> 0 .. MaxRows] : n \in 0 .. MaxFiles}

\* The mean file on disk: whether it can be read, and the shape of the
\* BlobProto it holds.
MeanFile(ok, shp) == [ok |-> ok, shape |-> shp]
NoMeanFile == MeanFile(FALSE, NoShape)

Param(b, bs, hbs, cs, m, rs, ld) ==
  [backend |-> b, batch_size |-> bs, hdf_batch_size |-> hbs, crop_size |-> cs,
   mirror |-> m, rand_skip |-> rs, label_dim |-> ld, has_mean_file |-> FALSE]
\* bytes: the records whose Datum carries a byte payload (data()); the
\* others carry float_data only.
Source(ok, k, h, w, by, fl) ==
  [ok |-> ok, size |-> k, channels |-> 1, height |-> h, width |-> w,
   bytes |-> by, files |-> fl, mean |-> NoMeanFile]
\* The configuration c with data_param().mean_file() naming the file mf.
WithMeanFile(c, mf) ==
  <<[c[1] EXCEPT !.has_mean_file = TRUE], [c[2] EXCEPT !.mean = mf], c[3]>>

\* Datasets and configurations explored.  The product of all options is
\* cut along the lines the code keeps independent: cursor and scheduling
\* with labels (ConfigCursor) and without (ConfigNoLabel), crop / mirror
\* (ConfigCrop), setup failures (ConfigFail), the mean file (ConfigMean),
\* the HDF5 file list (ConfigHdf) and the HDF5 setup options (ConfigHdfSkip).
ConfigCursor ==
  { <<Param(b, bs, 0, 0, FALSE, rs, 1), Source(TRUE, k, 1, 1, 0 .. k - 1, <<>>), 2>> :
      b \in DbBackends, bs \in 0 .. MaxBatch, rs \in 0 .. MaxSkip,
      k \in 1 .. MaxK }
ConfigNoLabel ==
  { <<Param(b, bs, 0, 0, FALSE, 0, 1),
      Source(TRUE, MaxK, 1, 1, 0 .. MaxK - 1, <<>>), 1>> :
      b \in DbBackends, bs \in {0, MaxBatch} }
ConfigCrop ==
  { <<Param("LEVELDB", 2, 0, x[1], x[2], 0, 1),
      Source(TRUE, 2, x[3], x[4], x[5], <<>>), 2>> :
      x \in (0 .. MaxCrop) \X BOOLEAN \X (1 .. MaxDim) \X (1 .. MaxDim)
              \X {{}, {0}, {0, 1}} }
ConfigFail ==
  { <<Param(b, 1, 1, 0, FALSE, 0, x[1]),
      Source(x[2], 1, 1, 1, {0}, IF b = "HDF5" /\ x[2] THEN <<1>> ELSE <<>>),
      x[3]>> :
      b \in Backends, x \in (1 .. 2) \X BOOLEAN \X (1 .. 2) }
ConfigHdf ==
  { <<Param("HDF5", 1, hbs, 0, FALSE, 0, 1),
      Source(TRUE, 1, 2, 2, {0}, fl), 2>> :
      fl \in FileLists, hbs \in 0 .. MaxHdfBatch }
ConfigHdfSkip ==
  { <<Param("HDF5", 1, x[1], x[2], FALSE, x[3], 1),
      Source(TRUE, 1, 2, 2, {0}, fl), 2>> :
      fl \in {<<>>, <<1>>},
      x \in (0 .. 1) \X (0 .. MaxCrop) \X (0 .. 2) }
\* Mean files: unreadable, of the shape of the records (1 x 1 x 1 x 1), or
\* off in one of num, channels, height, width.
MeanFiles ==
  {MeanFile(FALSE, NoShape)}
    \cup {MeanFile(TRUE, shp) : shp \in {<<1, 1, 1, 1>>, <<2, 1, 1, 1>>,
                                         <<1, 2, 1, 1>>, <<1, 1, 2, 1>>,
                                         <<1, 1, 1, 2>>}}
ConfigMean ==
  { WithMeanFile(<<Param(b, 1, 0, 0, FALSE, 0, 1),
                   Source(TRUE, 1, 1, 1, {0}, <<>>), nt>>, mf) :
      b \in DbBackends, nt \in 1 .. 2, mf \in MeanFiles }
Configs ==
  ConfigCursor \cup ConfigNoLabel \cup ConfigCrop \cup ConfigFail
    \cup ConfigMean \cup ConfigHdf \cup ConfigHdfSkip

\* The layer after construction, SetUp not yet called.
Constructed ==
  /\ pc = "new" /\ fatal = "none"
  /\ output_labels_ = FALSE /\ db_open = FALSE /\ cursor = 0
  /\ datum_channels_ = 0 /\ datum_height_ = 0 /\ datum_width_ = 0
  /\ hdf_filenames_ = <<>> /\ hdf_num_files_ = 0
  /\ hdf_current_file_ = 0 /\ hdf_current_row_ = 0
  /\ loaded_so_far = 0
  /\ prefetch_data_ = Blob(0) /\ prefetch_label_ = Blob(0)
  /\ top_data = Blob(0) /\ top_label = Blob(0)
  /\ phase_ = "unset" /\ prefetch_rng_ = NullRng
  /\ running = 0 /\ tpc = "none" /\ item_id = 0
  /\ h_off = 0 /\ w_off = 0 /\ mirrored = FALSE
  /\ launched = 0 /\ acquired = 0
  /\ blob_shape = NoShapes
  /\ NoPixels

\* label_channels_ (an int) has no initializer and no assignment in the
\* file: it holds whatever the memory of the object held, in every
\* configuration.  Explored: a negative value, 0, 1 and a value above 1.
LabelChannelVals == {-1, 0, 1, 2}

Init ==
  /\ \E c \in Configs : layer_param_ = c[1] /\ source = c[2] /\ ntop = c[3]
  /\ label_channels_ \in LabelChannelVals
  /\ Constructed

\* ------------------------------------------------------ cursor operations
\* iter_->Next() followed by SeekToFirst() when no longer Valid();
\* mdb_cursor_get(MDB_NEXT) followed by MDB_FIRST when it fails.
Advance(c, k) == IF c + 1 = k THEN 0 ELSE c + 1

\* iter_->Valid() / mdb_cursor_get(MDB_GET_CURRENT) == MDB_SUCCESS.
Valid(c, k) == c >= 0 /\ c < k

\* while (skip-- > 0) { advance }
RECURSIVE Skip(_, _, _)
Skip(c, k, n) == IF n = 0 THEN c ELSE Skip(Advance(c, k), k, n - 1)

\* hdf5_load_nd_dataset(file, name, min, max, blob, row, count): the rows
\* [row, row + count) that the file holds; the number of rows it loads.
HdfRead(rows, row, count) ==
  IF rows - row <= 0 THEN 0
  ELSE IF count < rows - row THEN count ELSE rows - row

\* ------------------------------------------------------------- threads
\* Mutant of JoinPrefetchThread: returns without waiting for the thread.
JoinNoWait == TRUE

\* JoinPrefetchThread returns: the thread last started has exited.
JoinPrefetchThread == running = 0

\* Mutant of PrefetchNeedsRand: the phase is not looked at.
PrefetchNeedsRandAnyPhase(p) == mirror \/ crop_size # 0

\* prefetch_needs_rand
PrefetchNeedsRand(p) ==
  (p = "TRAIN") /\ (mirror \/ crop_size # 0)

\* CreatePrefetchThread with Caffe::phase() = p and, when a generator is
\* needed, caffe_rng_rand() = sd.
CreatePrefetchThread(p, sd) ==
  /\ phase_' = p
  /\ prefetch_rng_' = IF PrefetchNeedsRand(p) THEN FreshRng(sd) ELSE NullRng
  /\ running' = running + 1
  /\ tpc' = "entry"
  /\ launched' = launched + 1
  /\ UNCHANGED <<item_id, h_off, w_off, mirrored>>

\* ---------------------------------------------------------------- SetUp
\* A CHECK or LOG(FATAL) of SetUp up to the end of the backend switch:
\* output_labels_ has been assigned (lines 167-173) before any of them fires.
SetUp_Abort(reason) ==
  /\ fatal' = reason
  /\ output_labels_' = (ntop # 1)
  /\ UNCHANGED <<cfgvars, pixvars, blob_shape, pc, db_open, cursor,
                 shapevars, hdfvars, bufvars, topvars, phase_, prefetch_rng_,
                 threadvars, launched, acquired>>

\* SetUp up to the end of the backend switch: label options, opening the
\* database or reading the HDF5 file list.
SetUp_Open ==
  /\ pc = "new" /\ fatal = "none"
  /\ LET ld == layer_param_.label_dim
         labels == (ntop # 1)
     IN IF (ntop = 1 /\ ld # 1) \/ (ntop # 1 /\ ld < 1)
        THEN SetUp_Abort("LabelDim")
        ELSE CASE backend \in DbBackends ->
                    IF ld # 1 THEN SetUp_Abort("LabelDim")
                    ELSE IF ~source.ok THEN SetUp_Abort("OpenFailed")
                    ELSE /\ output_labels_' = labels
                         /\ db_open' = TRUE
                         /\ cursor' = 0
                         /\ pc' = "finish"
                         /\ UNCHANGED <<cfgvars, pixvars, blob_shape,
                                        fatal, shapevars, hdfvars,
                                        bufvars, topvars, phase_,
                                        prefetch_rng_, threadvars, launched,
                                        acquired>>
               [] backend = "HDF5" ->
                    /\ output_labels_' = labels
                    /\ hdf_filenames_' = IF source.ok THEN source.files
                                         ELSE <<>>
                    /\ hdf_num_files_' = Len(hdf_filenames_')
                    /\ hdf_current_file_' = 0
                    /\ hdf_current_row_' = 0
                    /\ loaded_so_far' = 0
                    /\ pc' = "hdf"
                    /\ UNCHANGED <<cfgvars, pixvars, blob_shape,
                                   fatal, db_open, cursor, shapevars,
                                   bufvars, topvars, phase_,
                                   prefetch_rng_, threadvars, launched,
                                   acquired>>
               [] OTHER -> SetUp_Abort("UnknownBackend")

\* hdf_current_file_ += 1, back to 0 at hdf_num_files_.
HdfFileAfter(f) == IF f + 1 = hdf_num_files_ THEN 0 ELSE f + 1

\* One iteration of the while loop of LoadNextHdfBatch.
\*  - hdf_filenames_[hdf_current_file_] on an empty list is out of bounds:
\*    the garbage name fails to open or the access faults;
\*  - the position is updated before the copy (lines 415-425);
\*  - caffe_copy into a prefetch blob with fewer than loaded_so_far +
\*    loaded_here samples (at the call of SetUp the blob has none: it is
\*    reshaped later) writes outside the blob: the process dies there or
\*    goes on (the stray write is not recorded).
LoadNextHdfBatch_Iter ==
  /\ pc = "hdf" /\ fatal = "none"
  /\ loaded_so_far < layer_param_.hdf_batch_size
  /\ IF hdf_current_file_ >= Len(hdf_filenames_)
     THEN \E f \in {"HdfOpenFailed", "Segfault"} : Abort(f)
     ELSE LET hbs == layer_param_.hdf_batch_size
              rows == hdf_filenames_[hdf_current_file_ + 1]
              loaded_here == HdfRead(rows, hdf_current_row_,
                                     hbs - loaded_so_far)
              lch == blob_shape.prefetch_label_[2]
              fits == /\ loaded_so_far + loaded_here
                           <= Cardinality(DOMAIN prefetch_data_)
                      /\ output_labels_ =>
                           loaded_so_far * lch + loaded_here
                             <= Cardinality(DOMAIN prefetch_label_)
              row(n) == Rec(hdf_current_file_, hdf_current_row_ + n)
              data == [i \in DOMAIN prefetch_data_ |->
                         IF i >= loaded_so_far
                            /\ i < loaded_so_far + loaded_here
                         THEN [rec |-> row(i - loaded_so_far), pass |-> 1]
                         ELSE prefetch_data_[i]]
              label == [i \in DOMAIN prefetch_label_ |->
                          IF i >= loaded_so_far * lch
                             /\ i < loaded_so_far * lch + loaded_here
                          THEN [rec |-> row(i - loaded_so_far * lch),
                                pass |-> 1]
                          ELSE prefetch_label_[i]]
          IN /\ IF loaded_here = hbs
                THEN /\ hdf_current_row_' = hdf_current_row_ + loaded_here
                     /\ hdf_current_file_' = hdf_current_file_
                ELSE /\ hdf_current_file_' = HdfFileAfter(hdf_current_file_)
                     /\ hdf_current_row_' = 0
             /\ IF loaded_here > 0
                THEN \/ /\ fits
                        /\ prefetch_data_' = data
                        /\ prefetch_label_' = IF output_labels_ THEN label
                                              ELSE prefetch_label_
                        /\ loaded_so_far' = loaded_so_far + loaded_here
                        /\ fatal' = fatal
                     \/ /\ ~fits
                        /\ UNCHANGED bufvars
                        /\ \/ /\ fatal' = "BadWrite"
                              /\ loaded_so_far' = loaded_so_far
                           \/ /\ fatal' = fatal
                              /\ loaded_so_far' = loaded_so_far + loaded_here
                ELSE UNCHANGED <<bufvars, loaded_so_far, fatal>>
             /\ UNCHANGED <<cfgvars, pixvars, blob_shape,
                            pc, output_labels_, db_open, cursor,
                            shapevars, hdf_filenames_, hdf_num_files_,
                            topvars, phase_, prefetch_rng_,
                            threadvars, launched, acquired>>

\* Mutant of SkipCount: the count can reach rand_skip itself.
SkipCountInclusive(r, rs) == IF rs # 0 THEN URem(r, rs + 1) ELSE 0

\* skip = caffe_rng_rand() % rand_skip, with caffe_rng_rand() = r; nothing
\* is skipped when rand_skip is 0.
SkipCount(r, rs) == IF rs # 0 THEN URem(r, rs) ELSE 0

\* buffer_data_.channels() / height() / width() after LoadNextHdfBatch: the
\* blob has the files' sample shape once a read has shaped it, and is empty
\* when the loop never ran.
BufferDataDim(d) == IF layer_param_.hdf_batch_size > 0 THEN d ELSE 0

\* SetUp dies after the backend switch with the blobs as given.
SetUp_Dies(reason, shp, td, tl, pd, pl) ==
  /\ fatal' = reason
  /\ blob_shape' = shp
  /\ top_data' = td /\ top_label' = tl
  /\ prefetch_data_' = pd /\ prefetch_label_' = pl
  /\ UNCHANGED <<cfgvars, pixvars, pc, output_labels_, db_open, hdfvars,
                 phase_, prefetch_rng_, threadvars, launched, acquired>>

\* The rest of SetUp, in the order of the code: rand_skip, the sample
\* shape, CHECK_GT on the crop size, Reshape of the data blobs, Reshape of
\* the label blobs to (batch_size, label_channels_, 1, 1), the mean (read
\* from the mean file and checked against the sample shape, or reshaped to
\* it), the calls that allocate the prefetch blobs (lines 352-356) and the
\* first CreatePrefetchThread.
\*  - Reshape with a negative label_channels_ dies in the container;
\*  - mutable_cpu_data() of a blob of count 0 (lines 352, 354) fails the
\*    container's check or returns a null pointer that SetUp does not use;
\*  - the mean has count > 0 whenever line 356 is reached.
SetUp_Finish ==
  /\ fatal = "none"
  /\ \/ pc = "finish"
     \/ pc = "hdf" /\ loaded_so_far >= layer_param_.hdf_batch_size
  /\ \E r \in RandVals, p \in Phases :
       LET rs == layer_param_.rand_skip
           skip == SkipCount(r, rs)
           hdf == (backend = "HDF5")
           ch == IF hdf THEN BufferDataDim(source.channels)
                 ELSE source.channels
           ht == IF hdf THEN BufferDataDim(source.height) ELSE source.height
           wd == IF hdf THEN BufferDataDim(source.width) ELSE source.width
           data == IF crop_size > 0
                   THEN <<batch_size, ch, crop_size, crop_size>>
                   ELSE <<batch_size, ch, ht, wd>>
           label == <<batch_size, label_channels_, 1, 1>>
           sample == <<1, ch, ht, wd>>
           mf == source.mean
           shp1 == [blob_shape EXCEPT !.top_data = data,
                                      !.prefetch_data_ = data]
           shp2 == IF output_labels_
                   THEN [shp1 EXCEPT !.top_label = label,
                                     !.prefetch_label_ = label]
                   ELSE shp1
           shp3 == [shp2 EXCEPT !.data_mean_ =
                      IF layer_param_.has_mean_file THEN mf.shape
                      ELSE sample]
           db == Blob(batch_size)
           tl == IF output_labels_ THEN Blob(batch_size * label_channels_)
                 ELSE top_label
           pl == IF output_labels_ THEN Blob(batch_size * label_channels_)
                 ELSE prefetch_label_
           nomem == \/ batch_size = 0
                    \/ output_labels_ /\ batch_size * label_channels_ = 0
       IN IF hdf /\ skip > 0 THEN Abort("RandSkipHdf5")
          ELSE /\ cursor' = IF hdf THEN cursor
                            ELSE Skip(cursor, source.size, skip)
               /\ datum_channels_' = ch
               /\ datum_height_' = ht
               /\ datum_width_' = wd
               /\ IF ~(ht > crop_size /\ wd > crop_size)
                  THEN SetUp_Dies("CropTooLarge", blob_shape, top_data,
                                  top_label, prefetch_data_, prefetch_label_)
                  ELSE IF output_labels_ /\ label_channels_ < 0
                  THEN SetUp_Dies("BlobReshape", shp1, db, top_label, db,
                                  prefetch_label_)
                  ELSE IF layer_param_.has_mean_file /\ ~mf.ok
                  THEN SetUp_Dies("MeanFileUnreadable", shp2, db, tl, db, pl)
                  ELSE IF layer_param_.has_mean_file /\ mf.shape # sample
                  THEN SetUp_Dies("MeanShape", shp3, db, tl, db, pl)
                  ELSE \/ /\ nomem
                          /\ SetUp_Dies("BlobNoData", shp3, db, tl, db, pl)
                       \/ /\ top_data' = db /\ prefetch_data_' = db
                          /\ top_label' = tl /\ prefetch_label_' = pl
                          /\ blob_shape' = shp3
                          /\ \E sd \in Seeds : CreatePrefetchThread(p, sd)
                          /\ pc' = "idle"
                          /\ UNCHANGED <<cfgvars, pixvars, fatal,
                                         output_labels_, db_open, hdfvars,
                                         acquired>>

\* ------------------------------------------------- InternalThreadEntry
\* Mutant of Prefetch_Entry: no mirror-without-crop fatal.
Prefetch_EntryNoMirrorCheck ==
  /\ fatal = "none" /\ running > 0 /\ tpc = "entry"
  /\ IF Cardinality(DOMAIN prefetch_data_) = 0 THEN Abort("EmptyPrefetch")
     ELSE /\ tpc' = "loop"
          /\ item_id' = 0
          /\ UNCHANGED <<cfgvars, pixvars, blob_shape,
                         pc, fatal, output_labels_, db_open, cursor,
                         shapevars, hdfvars, bufvars, topvars, phase_,
                         prefetch_rng_, running, h_off, w_off, mirrored,
                         launched, acquired>>

\* The code before the loop: CHECK(prefetch_data_.count()) and the
\* mirror-without-crop fatal.
Prefetch_Entry ==
  /\ fatal = "none" /\ running > 0 /\ tpc = "entry"
  /\ IF Cardinality(DOMAIN prefetch_data_) = 0 THEN Abort("EmptyPrefetch")
     ELSE IF mirror /\ crop_size = 0 THEN Abort("MirrorWithoutCrop")
     ELSE /\ tpc' = "loop"
          /\ item_id' = 0
          /\ UNCHANGED <<cfgvars, pixvars, blob_shape,
                         pc, fatal, output_labels_, db_open, cursor,
                         shapevars, hdfvars, bufvars, topvars, phase_,
                         prefetch_rng_, running, h_off, w_off, mirrored,
                         launched, acquired>>

\* Mutant of CropOffset: the random offset ranges over the whole dimension.
CropOffsetWholeDim(ph, r, dim, crop) ==
  IF ph = "TRAIN" THEN URem(r, dim) ELSE (dim - crop) \div 2

\* h_off / w_off for a record dimension dim, r the value PrefetchRand
\* returns in TRAIN phase (an unsigned int; dim - crop is positive).
CropOffset(ph, r, dim, crop) ==
  IF ph = "TRAIN" THEN URem(r, dim - crop) ELSE (dim - crop) \div 2

\* data_index of crop-window element (c, h, w), and the size of a record.
DataIndex(c, h, w, ho, wo) ==
  (c * datum_height_ + h + ho) * datum_width_ + w + wo
DatumSize == datum_channels_ * datum_height_ * datum_width_

\* datum.data().size() is nonzero: the record at c carries a byte payload.
HasDataAssumed(c) == TRUE
HasData(c) == c \in source.bytes

\* PrefetchRand calls one loop iteration makes.
RandCalls ==
  (IF crop_size # 0 /\ phase_ = "TRAIN" THEN 2 ELSE 0)
    + (IF crop_size # 0 /\ mirror THEN 1 ELSE 0)

\* One iteration of the item loop: read the current record, transform it
\* into slot item_id, store the label in element item_id of the label blob
\* (top_label[item_id], whatever the channels of the blob), advance the
\* cursor.  A label blob without memory (count 0, SetUp having got past
\* line 354 with a null pointer) makes the label store fault.
Prefetch_Item ==
  /\ fatal = "none" /\ running > 0 /\ tpc = "loop"
  /\ item_id < batch_size
  /\ IF backend \notin DbBackends THEN Abort("UnknownBackend")
     ELSE IF ~Valid(cursor, source.size) THEN Abort("CursorInvalid")
     ELSE IF crop_size # 0 /\ ~HasData(cursor)
     THEN Abort("CropNeedsBytes")
     ELSE IF RandCalls > 0 /\ ~prefetch_rng_.valid
     THEN Abort("PrefetchRngNull")
     ELSE \E r1 \in RandVals, r2 \in RandVals, r3 \in RandVals :
            LET slot == [rec |-> Rec(0, cursor), pass |-> launched]
                nolabel == output_labels_
                             /\ item_id \notin DOMAIN prefetch_label_
            IN /\ h_off' = IF crop_size # 0
                           THEN CropOffset(phase_, r1, datum_height_,
                                           crop_size)
                           ELSE 0
               /\ w_off' = IF crop_size # 0
                           THEN CropOffset(phase_, r2, datum_width_,
                                           crop_size)
                           ELSE 0
               /\ mirrored' = (crop_size # 0 /\ mirror /\ URem(r3, 2) # 0)
               /\ prefetch_rng_' =
                    [prefetch_rng_ EXCEPT !.draws = @ + RandCalls]
               /\ prefetch_data_' =
                    [prefetch_data_ EXCEPT ![item_id] = slot]
               /\ prefetch_label_' =
                    IF output_labels_ /\ ~nolabel
                    THEN [prefetch_label_ EXCEPT ![item_id] = slot]
                    ELSE prefetch_label_
               /\ fatal' = IF nolabel THEN "Segfault" ELSE fatal
               /\ cursor' = IF nolabel THEN cursor
                            ELSE Advance(cursor, source.size)
               /\ item_id' = IF nolabel THEN item_id ELSE item_id + 1
               /\ UNCHANGED <<cfgvars, pixvars, blob_shape,
                              pc, output_labels_, db_open,
                              shapevars, hdfvars, topvars, phase_, running,
                              tpc, launched, acquired>>

\* The loop is over: the thread exits.
Prefetch_Exit ==
  /\ fatal = "none" /\ running > 0 /\ tpc = "loop"
  /\ item_id >= batch_size
  /\ running' = running - 1
  /\ tpc' = "exited"
  /\ UNCHANGED <<cfgvars, pixvars, blob_shape,
                 pc, fatal, output_labels_, db_open, cursor,
                 shapevars, hdfvars, bufvars, topvars, phase_, prefetch_rng_,
                 item_id, h_off, w_off, mirrored, launched, acquired>>

\* ---------------------------------------------------------- Forward_cpu
Forward_cpu_Call ==
  /\ fatal = "none" /\ pc = "idle"
  /\ acquired < MaxAcquire
  /\ pc' = "join"
  /\ UNCHANGED <<cfgvars, pixvars, blob_shape,
                 fatal, output_labels_, db_open, cursor, shapevars,
                 hdfvars, bufvars, topvars, phase_, prefetch_rng_,
                 threadvars, launched, acquired>>

\* Mutant of Forward_cpu_Join: the copy starts without the join.
Forward_cpu_JoinSkipped ==
  /\ fatal = "none" /\ pc = "join"
  /\ pc' = "copy"
  /\ UNCHANGED <<cfgvars, pixvars, blob_shape,
                 fatal, output_labels_, db_open, cursor, shapevars,
                 hdfvars, bufvars, topvars, phase_, prefetch_rng_,
                 threadvars, launched, acquired>>

Forward_cpu_Join ==
  /\ fatal = "none" /\ pc = "join"
  /\ JoinPrefetchThread
  /\ pc' = "copy"
  /\ UNCHANGED <<cfgvars, pixvars, blob_shape,
                 fatal, output_labels_, db_open, cursor, shapevars,
                 hdfvars, bufvars, topvars, phase_, prefetch_rng_,
                 threadvars, launched, acquired>>

Forward_cpu_Copy ==
  /\ fatal = "none" /\ pc = "copy"
  /\ top_data' = prefetch_data_
  /\ top_label' = IF output_labels_ THEN prefetch_label_ ELSE top_label
  /\ pc' = "launch"
  /\ UNCHANGED <<cfgvars, pixvars, blob_shape,
                 fatal, output_labels_, db_open, cursor, shapevars,
                 hdfvars, bufvars, phase_, prefetch_rng_, threadvars,
                 launched, acquired>>

\* Mutant of Forward_cpu_Launch: Forward_cpu returns without relaunching.
Forward_cpu_NoRelaunch ==
  /\ fatal = "none" /\ pc = "launch"
  /\ pc' = "idle"
  /\ acquired' = acquired + 1
  /\ UNCHANGED <<cfgvars, pixvars, blob_shape,
                 fatal, output_labels_, db_open, cursor, shapevars,
                 hdfvars, bufvars, topvars, phase_, prefetch_rng_,
                 threadvars, launched>>

Forward_cpu_Launch ==
  /\ fatal = "none" /\ pc = "launch"
  /\ \E p \in Phases, sd \in Seeds : CreatePrefetchThread(p, sd)
  /\ pc' = "idle"
  /\ acquired' = acquired + 1
  /\ UNCHANGED <<cfgvars, pixvars, blob_shape,
                 fatal, output_labels_, db_open, cursor, shapevars,
                 hdfvars, bufvars, topvars>>

\* ---------------------------------------------------------- ~DataLayer
Destructor_Call ==
  /\ fatal = "none" /\ pc = "idle"
  /\ pc' = "dtor"
  /\ UNCHANGED <<cfgvars, pixvars, blob_shape,
                 fatal, output_labels_, db_open, cursor, shapevars,
                 hdfvars, bufvars, topvars, phase_, prefetch_rng_,
                 threadvars, launched, acquired>>

\* Mutant of Destructor_Release: the resources are released without the join.
Destructor_ReleaseNoJoin ==
  /\ fatal = "none" /\ pc = "dtor"
  /\ IF backend \in DbBackends
     THEN /\ db_open' = FALSE
          /\ pc' = "destroyed"
          /\ UNCHANGED <<cfgvars, pixvars, blob_shape,
                         fatal, output_labels_, cursor, shapevars,
                         hdfvars, bufvars, topvars, phase_, prefetch_rng_,
                         threadvars, launched, acquired>>
     ELSE Abort("UnknownBackend")

Destructor_Release ==
  /\ fatal = "none" /\ pc = "dtor"
  /\ JoinPrefetchThread
  /\ IF backend \in DbBackends
     THEN /\ db_open' = FALSE
          /\ pc' = "destroyed"
          /\ UNCHANGED <<cfgvars, pixvars, blob_shape,
                         fatal, output_labels_, cursor, shapevars,
                         hdfvars, bufvars, topvars, phase_, prefetch_rng_,
                         threadvars, launched, acquired>>
     ELSE Abort("UnknownBackend")

Next ==
  \/ SetUp_Open
  \/ LoadNextHdfBatch_Iter
  \/ SetUp_Finish
  \/ Prefetch_Entry
  \/ Prefetch_Item
  \/ Prefetch_Exit
  \/ Forward_cpu_Call
  \/ Forward_cpu_Join
  \/ Forward_cpu_Copy
  \/ Forward_cpu_Launch
  \/ Destructor_Call
  \/ Destructor_Release

Spec == Init /\ [][Next]_vars

\* ------------------------------------ the cropped copy, element by element
\* static_cast<uint8_t>(data[data_index]) of a char of the data string.
Uint8(x) == x % 256

\* (datum_element - mean[data_index]) * scale
Element(di) == (Uint8(datum_data[di]) - data_mean_[di]) * scale

\* top_index of element (c, h, w) of slot item.
TopIndex(item, c, h, w) ==
  ((item * datum_channels_ + c) * crop_size + h) * crop_size + w

\* Mutant of MirrorColumn: the column is kept.
MirrorColumnKept(w) == w

\* The column a mirrored copy writes for loop index w.
MirrorColumn(w) == crop_size - 1 - w

\* The first n iterations of the loops over c, h, w of the cropped copy,
\* in loop order, applied to the elements tp of the prefetch blob.
RECURSIVE CropCopy(_, _)
CropCopy(tp, n) ==
  IF n = 0 THEN tp
  ELSE LET i == n - 1
           c == i \div (crop_size * crop_size)
           h == (i \div crop_size) % crop_size
           w == i % crop_size
           ti == TopIndex(item_id, c, h,
                          IF mirrored THEN MirrorColumn(w) ELSE w)
           di == DataIndex(c, h, w, h_off, w_off)
       IN [CropCopy(tp, n - 1) EXCEPT
             ![ti] = [val |-> Element(di), writes |-> @.writes + 1]]

\* Records and means used for the element-wise copy: the chars of a record
\* (-128 .. 127) differ from one another, and some are negative.
DatumPatterns(n) ==
  { [i \in 0 .. n - 1 |-> i - 2],
    [i \in 0 .. n - 1 |-> ((255 - 5 * i) % 256) - 128] }
MeanPatterns(n) ==
  { [i \in 0 .. n - 1 |-> 0], [i \in 0 .. n - 1 |-> i % 3] }
\* data_mean_ without a mean file: Reshape (line 346) leaves it all 0.
ZeroMean(n) == [i \in 0 .. n - 1 |-> 0]
Scales == {1, 2}
\* The combinations <<record, <<has_mean_file, mean>>, scale>> explored for
\* records of n chars: no mean file and the all-zero mean, or a mean file
\* holding one of the mean patterns.
CopyInputs(n) ==
  DatumPatterns(n)
    \X ({<<FALSE, ZeroMean(n)>>} \cup {<<TRUE, mn>> : mn \in MeanPatterns(n)})
    \X Scales

\* Values of h_off / w_off for every value PrefetchRand can return.
CropOffsets(ph, dim, crop) == {CropOffset(ph, r, dim, crop) : r \in RandVals}

\* The first iteration of the item loop of the first pass with crop_size > 0
\* and batch_size 2, at the copy: SetUp is over, the record is decoded, the offsets and the
\* mirror decision are taken (in TEST phase mirror is off: with mirror the
\* iteration does not get to the copy).  The mean is the content of the mean
\* file when the configuration names one, and all 0 otherwise.
InitCrop ==
  /\ \E ch \in {MaxChannels}, ht \in 2 .. MaxCopyDim,
        wd \in 2 .. MaxCopyDim, k \in 1 .. MaxCrop, m \in BOOLEAN,
        ph \in Phases, sd \in Seeds :
       /\ k < ht /\ k < wd
       /\ ph = "TEST" => ~m
       /\ \E x \in CopyInputs(ch * ht * wd) :
            /\ layer_param_ = [Param("LEVELDB", 2, 0, k, m, 0, 1) EXCEPT
                                 !.has_mean_file = x[2][1]]
            /\ source = [Source(TRUE, 1, ht, wd, {0}, <<>>) EXCEPT
                           !.channels = ch,
                           !.mean = IF x[2][1]
                                    THEN MeanFile(TRUE, <<1, ch, ht, wd>>)
                                    ELSE NoMeanFile]
            /\ datum_data = x[1] /\ data_mean_ = x[2][2] /\ scale = x[3]
       /\ datum_channels_ = ch /\ datum_height_ = ht /\ datum_width_ = wd
       /\ phase_ = ph
       /\ h_off \in CropOffsets(ph, ht, k)
       /\ w_off \in CropOffsets(ph, wd, k)
       /\ mirrored \in {m /\ URem(r, 2) # 0 : r \in RandVals}
       /\ prefetch_rng_ =
            IF ph = "TRAIN"
            THEN [FreshRng(sd) EXCEPT !.draws = IF m THEN 3 ELSE 2]
            ELSE NullRng
       /\ top_pixels = [t \in 0 .. 2 * ch * k * k - 1 |->
                          [val |-> 0, writes |-> 0]]
       /\ blob_shape = [NoShapes EXCEPT
                          !.top_data = <<2, ch, k, k>>,
                          !.prefetch_data_ = <<2, ch, k, k>>,
                          !.data_mean_ = <<1, ch, ht, wd>>]
  /\ item_id = 0
  /\ ntop = 1 /\ label_channels_ \in LabelChannelVals
  /\ pc = "idle" /\ fatal = "none"
  /\ output_labels_ = FALSE /\ db_open = TRUE /\ cursor = 0
  /\ hdf_filenames_ = <<>> /\ hdf_num_files_ = 0
  /\ hdf_current_file_ = 0 /\ hdf_current_row_ = 0
  /\ loaded_so_far = 0
  /\ prefetch_data_ = Blob(2) /\ prefetch_label_ = Blob(0)
  /\ top_data = Blob(2) /\ top_label = Blob(0)
  /\ running = 1 /\ tpc = "copy"
  /\ launched = 1 /\ acquired = 0

\* The copy loops of lines 72-100 for the current item.
Prefetch_CropCopy ==
  /\ fatal = "none" /\ running > 0 /\ tpc = "copy"
  /\ top_pixels' =
       CropCopy(top_pixels, datum_channels_ * crop_size * crop_size)
  /\ tpc' = "copied"
  /\ UNCHANGED <<cfgvars, blob_shape, datum_data, data_mean_, scale, pc,
                 fatal, output_labels_, db_open, cursor, shapevars, hdfvars,
                 bufvars, topvars, phase_, prefetch_rng_, running, item_id,
                 h_off, w_off, mirrored, launched, acquired>>

\* From the end of one copy to the start of the next: the slot is complete,
\* the cursor advances (back to the one record of the dataset), the next
\* iteration reads it and takes its offsets and its mirror decision.
Prefetch_CropNext ==
  /\ fatal = "none" /\ running > 0 /\ tpc = "copied"
  /\ item_id + 1 < batch_size
  /\ prefetch_data_' =
       [prefetch_data_ EXCEPT
          ![item_id] = [rec |-> Rec(0, cursor), pass |-> launched]]
  /\ cursor' = Advance(cursor, source.size)
  /\ item_id' = item_id + 1
  /\ h_off' \in CropOffsets(phase_, datum_height_, crop_size)
  /\ w_off' \in CropOffsets(phase_, datum_width_, crop_size)
  /\ mirrored' \in {mirror /\ URem(r, 2) # 0 : r \in RandVals}
  /\ prefetch_rng_' = [prefetch_rng_ EXCEPT !.draws = @ + RandCalls]
  /\ tpc' = "copy"
  /\ UNCHANGED <<cfgvars, blob_shape, pixvars, pc,
                 fatal, output_labels_, db_open, shapevars, hdfvars,
                 prefetch_label_, topvars, phase_, running, launched,
                 acquired>>

NextCrop == Prefetch_CropCopy \/ Prefetch_CropNext

SpecCrop == InitCrop /\ [][NextCrop]_vars

\* =================================================================
\* Properties
\* =================================================================
Slots == 0 .. (batch_size - 1)
Filled(blob, p) ==
  \A i \in Slots :
    i \in DOMAIN blob /\ blob[i].pass = p /\ blob[i].rec # NoRec

\* Every element of a label blob that holds anything was written by pass p,
\* and the elements the batch_size iterations of a pass write are among them.
LabelsOf(blob, p) ==
  /\ \A i \in Slots : i \in DOMAIN blob /\ blob[i].pass = p
  /\ \A e \in DOMAIN blob : blob[e] = EmptySlot \/ blob[e].pass = p

\* C1: the copy step of Forward_cpu never overlaps a production pass: while
\* the consumer is at the copy no prefetch thread runs, the last launched
\* pass has run all batch_size iterations, every data slot it reads (and has
\* copied out) was written by that pass, and so was every label the label
\* blob holds.
C1_CopySeesCompletePass ==
  /\ pc = "copy" =>
       /\ running = 0 /\ tpc = "exited" /\ item_id = batch_size
       /\ Filled(prefetch_data_, launched)
       /\ output_labels_ => LabelsOf(prefetch_label_, launched)
  /\ pc = "launch" =>
       /\ running = 0
       /\ Filled(top_data, launched)
       /\ output_labels_ => LabelsOf(top_label, launched)
C1_Witness ==
  pc = "launch" /\ acquired >= 1 /\ batch_size >= 2 /\ output_labels_

\* The batch the consumer holds: the one the n-th Forward_cpu copied out,
\* n counted from 0.
HasBatch == pc = "launch" \/ acquired >= 1
BatchNo == IF pc = "launch" THEN acquired ELSE acquired - 1

\* The element of a label blob where the label of sample i lies, by the
\* shape of the blob.
LabelAt(shape, i) == i * shape[2]

\* C2 (as stated): on LEVELDB / LMDB with K records, batch size B and no
\* rand_skip, slot i of the n-th batch holds data and label of record
\* (n*B + i) mod K, and the cursor is never found invalid.
C2_Claim ==
  (backend \in DbBackends /\ layer_param_.rand_skip = 0) =>
    /\ fatal # "CursorInvalid"
    /\ HasBatch =>
         \A i \in Slots :
           LET want == Rec(0, (BatchNo * batch_size + i) % source.size)
               e == LabelAt(blob_shape.top_label, i)
           IN /\ top_data[i].rec = want
              /\ output_labels_ =>
                   e \in DOMAIN top_label /\ top_label[e].rec = want

NextFile == IF hdf_current_file_ + 1 = hdf_num_files_ THEN 0
            ELSE hdf_current_file_ + 1
\* C3 (as stated): a read that returns exactly the requested
\* batch_size - loaded_so_far rows advances the row and keeps the file; only
\* a shorter read moves to the next file; so files of 3 and 2 rows with
\* batch_size 4 give rows 0-2 of file 0 + row 0 of file 1 and leave the
\* position at file 1, row 1.
C3_Step ==
  (/\ pc = "hdf" /\ loaded_so_far < layer_param_.hdf_batch_size
   /\ hdf_current_file_ < Len(hdf_filenames_)
   /\ <<hdf_current_file_, hdf_current_row_, loaded_so_far>>'
        # <<hdf_current_file_, hdf_current_row_, loaded_so_far>>)
  => LET requested == layer_param_.hdf_batch_size - loaded_so_far
         got == HdfRead(hdf_filenames_[hdf_current_file_ + 1],
                        hdf_current_row_, requested)
     IN IF got = requested
        THEN /\ hdf_current_file_' = hdf_current_file_
             /\ hdf_current_row_' = hdf_current_row_ + got
        ELSE /\ hdf_current_file_' = NextFile
             /\ hdf_current_row_' = 0
C3_Scenario ==
  (/\ hdf_filenames_ = <<3, 2>> /\ layer_param_.hdf_batch_size = 4
   /\ pc = "hdf" /\ loaded_so_far = 4) =>
    hdf_current_file_ = 1 /\ hdf_current_row_ = 1
C3_Claim == [][C3_Step]_vars /\ []C3_Scenario

\* C4 (as stated): with a recognised backend kind the unknown-backend fatal
\* is never raised, by setup, by a production pass or by teardown.
C4_Claim ==
  backend \in {"LEVELDB", "LMDB", "HDF5"} => fatal # "UnknownBackend"

\* C5 (as stated): a TEST-phase pass with crop_size > 0 over byte records
\* draws nothing from prefetch_rng_, never mirrors and raises no fatal,
\* whatever the mirror flag is.
C5_Claim ==
  (/\ phase_ = "TEST" /\ crop_size > 0 /\ tpc \in {"loop", "exited"}
   /\ backend \in DbBackends /\ source.bytes = 0 .. source.size - 1)
  => /\ fatal = "none"
     /\ prefetch_rng_.draws = 0
     /\ item_id >= 1 => ~mirrored

\* C6: for crop_size c > 0 accepted by SetUp, the offsets of every loop
\* iteration satisfy 0 <= h_off <= H - c and 0 <= w_off <= W - c, every
\* data_index of the crop window lies inside the record, and in TEST phase
\* the offsets are ((H - c) div 2, (W - c) div 2).
C6_CropOffsetsInRange ==
  (crop_size > 0 /\ tpc \in {"loop", "exited"} /\ item_id >= 1) =>
    /\ crop_size < datum_height_ /\ crop_size < datum_width_
    /\ 0 <= h_off /\ h_off <= datum_height_ - crop_size
    /\ 0 <= w_off /\ w_off <= datum_width_ - crop_size
    /\ \A c \in 0 .. (datum_channels_ - 1), h \in 0 .. (crop_size - 1),
          w \in 0 .. (crop_size - 1) :
         /\ 0 <= DataIndex(c, h, w, h_off, w_off)
         /\ DataIndex(c, h, w, h_off, w_off) < DatumSize
    /\ phase_ = "TEST" =>
         /\ h_off = (datum_height_ - crop_size) \div 2
         /\ w_off = (datum_width_ - crop_size) \div 2
C6_Witness ==
  /\ crop_size > 0 /\ tpc = "loop" /\ item_id >= 1 /\ phase_ = "TRAIN"
  /\ h_off = datum_height_ - crop_size - 1 /\ h_off > 0
  /\ w_off = datum_width_ - crop_size - 1 /\ w_off > 0

\* C7: at most one prefetch thread runs at any time, and
\* CreatePrefetchThread is called only at the end of SetUp and in
\* Forward_cpu after the join, never while a launched pass is unjoined.
C7_LaunchStep ==
  launched' # launched =>
    /\ running = 0 /\ running' = 1
    /\ \/ pc \in {"finish", "hdf"} /\ launched = 0
       \/ pc = "launch"
C7_SingleProducer == [](running <= 1) /\ [][C7_LaunchStep]_vars
C7_Witness == running = 1 /\ launched >= 2 /\ pc = "join"

\* C8: Forward_cpu joins, copies, launches, and returns after the relaunch:
\* when the n-th call has returned exactly n + 1 passes have been launched,
\* the batch it copied out is the one pass n produced, and the pass just
\* launched is producing or done.
C8_ReturnStep ==
  acquired' # acquired =>
    /\ acquired' = acquired + 1
    /\ pc = "launch" /\ pc' = "idle"
    /\ launched' = launched + 1 /\ running' = 1 /\ tpc' = "entry"
    /\ Filled(top_data, launched)
C8_State ==
  /\ pc \in {"idle", "join", "copy", "launch"} => launched = acquired + 1
  /\ (pc = "idle" /\ acquired >= 1) =>
       /\ Filled(top_data, acquired)
       /\ tpc \in {"entry", "loop", "exited"}
C8_AcquireOrder == []C8_State /\ [][C8_ReturnStep]_vars
C8_Witness == pc = "idle" /\ acquired = 2 /\ launched = 3 /\ running = 1

\* C9: the destructor joins the in-flight pass before it releases the
\* database: no prefetch thread runs once the resources are closed.
C9_JoinBeforeRelease ==
  /\ (running > 0 /\ backend \in DbBackends) => db_open
  /\ pc = "destroyed" => (running = 0 /\ ~db_open)
C9_Witness ==
  pc = "destroyed" /\ backend = "LMDB" /\ launched >= 2 /\ tpc = "exited"

\* C10 (as stated): with a source that cannot be opened, or an HDF5 list
\* that yields no file name, SetUp aborts at the open and never goes on.
NoSource ==
  ~source.ok \/ (backend = "HDF5" /\ source.files = <<>>)
C10_Claim == NoSource => pc = "new"

\* C11 (as stated): with rand_skip nonzero on the HDF5 backend SetUp always
\* dies: no prefetch thread is launched and no batch is returned, whatever
\* caffe_rng_rand() returns.
C11_Claim ==
  (backend = "HDF5" /\ layer_param_.rand_skip # 0) =>
    /\ launched = 0 /\ acquired = 0
    /\ pc \in {"new", "hdf"}

Untouched(blob) == \A i \in DOMAIN blob : blob[i] = EmptySlot
\* C12 (as stated): with mirror set and crop_size 0 the fatal is raised at
\* setup: SetUp does not complete.
C12_Claim ==
  (mirror /\ crop_size = 0) => (pc \in {"new", "finish", "hdf"} /\ launched = 0)
\* C12 (amended): with mirror set and crop_size 0 SetUp itself raises no
\* fatal for it; the first production pass, launched at the end of SetUp,
\* dies on entry before its item loop, so no record is ever put into the
\* batch blobs and no Forward_cpu gets to its copy or returns.
C12_MirrorWithoutCropDiesOnEntry ==
  (mirror /\ crop_size = 0 /\ backend \in DbBackends) =>
    /\ tpc \in {"none", "entry"}
    /\ fatal \in {"none", "LabelDim", "OpenFailed", "CropTooLarge",
                  "BlobReshape", "BlobNoData", "EmptyPrefetch",
                  "MirrorWithoutCrop"}
    /\ Untouched(prefetch_data_) /\ Untouched(prefetch_label_)
    /\ Untouched(top_data) /\ Untouched(top_label)
    /\ acquired = 0 /\ launched <= 1
    /\ pc \in {"new", "finish", "idle", "join", "dtor"}
C12_Witness ==
  /\ mirror /\ crop_size = 0 /\ fatal = "MirrorWithoutCrop"
  /\ pc = "join" /\ launched = 1

\* C13: with crop_size > 0, a pass that comes to a record without byte
\* payload raises the fatal at that record: the record is not written, the
\* pass writes nothing more, and the Forward_cpu waiting for it never copies
\* or returns, so top never shows a batch holding such a record or a batch
\* filled in part.
AtFloatRecord ==
  /\ fatal = "none" /\ tpc = "loop" /\ item_id < batch_size
  /\ backend \in DbBackends /\ crop_size # 0
  /\ Valid(cursor, source.size) /\ cursor \notin source.bytes
OnlyByteRecords(blob) ==
  \A i \in DOMAIN blob :
    blob[i] # EmptySlot => blob[i].rec.row \in source.bytes
C13_State ==
  /\ (crop_size # 0 /\ backend \in DbBackends) =>
       /\ OnlyByteRecords(prefetch_data_) /\ OnlyByteRecords(top_data)
       /\ Untouched(top_data) \/ \A i \in DOMAIN top_data :
                                    top_data[i] # EmptySlot
  /\ fatal = "CropNeedsBytes" =>
       /\ pc \notin {"copy", "launch"}
       /\ tpc = "loop" /\ item_id < batch_size
       /\ cursor \notin source.bytes
C13_Step ==
  AtFloatRecord =>
    /\ fatal' \in {"none", "CropNeedsBytes"}
    /\ UNCHANGED <<bufvars, topvars, acquired, item_id, cursor, tpc>>
    /\ pc' \notin {"copy", "launch"}
C13_FloatRecordUnderCropIsFatal == []C13_State /\ [][C13_Step]_vars
C13_Witness ==
  /\ fatal = "CropNeedsBytes" /\ item_id = 1 /\ pc = "join"
  /\ prefetch_data_[0] # EmptySlot /\ prefetch_data_[1] = EmptySlot
  /\ Untouched(top_data)

\* C14: for crop size k > 0 the copy of one item gives, for all (c, h, w)
\* of the crop window, output[c, h, w] =
\* (raw[c, h + h_off, (k - 1 - w) + w_off] - mean[same]) * scale when the
\* item is mirrored and (raw[c, h + h_off, w + w_off] - mean[same]) * scale
\* when it is not; every element of the item's slot is written exactly
\* once by the copy of its item and by no other: the slots of the items
\* before keep their one write, the slots after have none.
Raw3(c, h, w) == Uint8(datum_data[(c * datum_height_ + h) * datum_width_ + w])
Mean3(c, h, w) == data_mean_[(c * datum_height_ + h) * datum_width_ + w]
Out3(c, h, w) ==
  top_pixels[((item_id * datum_channels_ + c) * crop_size + h) * crop_size
               + w]
SlotSize == datum_channels_ * crop_size * crop_size
C14_CropCopyIsWindowOrMirror ==
  tpc = "copied" =>
    /\ \A c \in 0 .. datum_channels_ - 1, h \in 0 .. crop_size - 1,
          w \in 0 .. crop_size - 1 :
         LET sh == h + h_off
             sw == IF mirrored THEN (crop_size - 1 - w) + w_off
                   ELSE w + w_off
         IN /\ Out3(c, h, w).val = (Raw3(c, sh, sw) - Mean3(c, sh, sw)) * scale
            /\ Out3(c, h, w).writes = 1
    /\ \A t \in DOMAIN top_pixels :
         /\ t < item_id * SlotSize => top_pixels[t].writes = 1
         /\ t >= (item_id + 1) * SlotSize => top_pixels[t].writes = 0
C14_Witness ==
  /\ tpc = "copied" /\ mirrored /\ crop_size = 2 /\ item_id = 1
  /\ w_off = 1 /\ datum_channels_ = 2
  /\ Out3(1, 0, 0).val # Out3(1, 0, 1).val

\* C15 (as stated): once SetUp has completed, top[0] and prefetch_data_ have
\* shape (batch_size, channels, crop_size, crop_size) when crop_size > 0 and
\* (batch_size, channels, height, width) otherwise, and the label blobs,
\* when labels are output, have shape (batch_size, label_dim, 1, 1); the
\* shapes stay the same through every Forward_cpu.
SetUpDone == pc \in {"idle", "join", "copy", "launch", "dtor", "destroyed"}
DataShape ==
  IF crop_size > 0
  THEN <<batch_size, datum_channels_, crop_size, crop_size>>
  ELSE <<batch_size, datum_channels_, datum_height_, datum_width_>>
C15_Claim ==
  (SetUpDone /\ backend \in DbBackends) =>
    /\ blob_shape.top_data = DataShape
    /\ blob_shape.prefetch_data_ = DataShape
    /\ output_labels_ =>
         /\ blob_shape.top_label = <<batch_size, layer_param_.label_dim, 1, 1>>
         /\ blob_shape.prefetch_label_ = blob_shape.top_label

\* C16 (as stated): over a LEVELDB / LMDB dataset of K >= 1 well-formed
\* records, with any batch_size B >= 1 (B > K included) and a
\* configuration SetUp accepts, no launched pass dies: it exits after B
\* loop iterations with all B slots written, so the Forward_cpu that joins
\* it returns.
WellFormed ==
  /\ backend \in DbBackends /\ source.ok /\ source.size >= 1
  /\ layer_param_.label_dim = 1 /\ batch_size >= 1
  /\ crop_size < source.height /\ crop_size < source.width
  /\ crop_size > 0 => source.bytes = 0 .. source.size - 1
  /\ ~(mirror /\ crop_size = 0)
C16_Claim ==
  (WellFormed /\ launched >= 1) =>
    /\ fatal = "none"
    /\ tpc = "exited" =>
         /\ item_id = batch_size
         /\ Filled(prefetch_data_, launched)

\* C17: every CreatePrefetchThread, before the thread it starts has taken a
\* step, leaves prefetch_rng_ as follows: when the phase is TRAIN and mirror
\* or crop_size is set, a new generator seeded with a value of
\* caffe_rng_rand() from which nothing has been drawn; in every other
\* configuration no generator at all.  Outside a launch the generator is
\* never replaced or dropped.
C17_LaunchStep ==
  IF launched' # launched
  THEN /\ tpc' = "entry"
       /\ IF phase_' = "TRAIN" /\ (mirror \/ crop_size > 0)
          THEN /\ prefetch_rng_'.valid
               /\ prefetch_rng_'.draws = 0
               /\ prefetch_rng_'.seed \in Seeds
          ELSE prefetch_rng_' = NullRng
  ELSE /\ prefetch_rng_'.valid = prefetch_rng_.valid
       /\ prefetch_rng_'.seed = prefetch_rng_.seed
       /\ prefetch_rng_'.draws >= prefetch_rng_.draws
C17_RngResetAtLaunch == [][C17_LaunchStep]_vars
C17_Witness ==
  /\ launched = 2 /\ acquired = 1 /\ tpc = "entry"
  /\ phase_ = "TRAIN" /\ crop_size > 0 /\ mirror
  /\ prefetch_rng_ = FreshRng(<<65535, 65535>>)
  /\ Filled(top_data, 1)

\* C18: with rand_skip = n > 0 on LEVELDB / LMDB with K >= 1 records there
\* is one s, 0 <= s < n, such that SetUp has advanced the cursor s times
\* (with wraparound) before the first launch: the first pass starts at
\* record s mod K, and nothing more is ever skipped, so the pass launched
\* p-th starts at record (s + (p - 1) * B) mod K and slot i of the n-th
\* batch holds record (s + n * B + i) mod K.
ItemsRead ==
  CASE tpc = "entry" -> (launched - 1) * batch_size
    [] tpc = "loop" -> (launched - 1) * batch_size + item_id
    [] tpc = "exited" -> launched * batch_size
    [] OTHER -> 0
C18_SkipOnceAtSetUp ==
  (backend \in DbBackends /\ layer_param_.rand_skip > 0 /\ SetUpDone) =>
    \E s \in 0 .. layer_param_.rand_skip - 1 :
      /\ cursor = (s + ItemsRead) % source.size
      /\ HasBatch =>
           \A i \in Slots :
             LET want == Rec(0, (s + BatchNo * batch_size + i) % source.size)
             IN top_data[i].rec = want
C18_Witness ==
  /\ backend \in DbBackends /\ layer_param_.rand_skip = 2
  /\ source.size = 3 /\ batch_size = 2 /\ acquired = 2
  /\ top_data[0].rec = Rec(0, 0) /\ top_data[1].rec = Rec(0, 1)

\* C19 (as stated): when some listed file has at least one row, the
\* LoadNextHdfBatch call does not die in its loop, loaded_so_far never
\* exceeds the batch size and hdf_current_file_ stays in
\* [0, hdf_num_files_).
SomeRows == \E f \in DOMAIN hdf_filenames_ : hdf_filenames_[f] > 0
C19_Claim ==
  (backend = "HDF5" /\ SomeRows) =>
    /\ hdf_current_file_ >= 0 /\ hdf_current_file_ < hdf_num_files_
    /\ loaded_so_far <= layer_param_.hdf_batch_size
    /\ fatal # "BadWrite"

\* C20 (as stated): whenever an iteration of LoadNextHdfBatch is about to
\* copy the rows it loaded into prefetch_data_, the blob has been reshaped
\* to data_param().batch_size() samples and the rows
\* [loaded_so_far, loaded_so_far + loaded_here) lie inside it; so it is for
\* the call SetUp makes and for the batch size the loop counts with.
C20_Claim ==
  (/\ pc = "hdf" /\ fatal = "none"
   /\ loaded_so_far < layer_param_.hdf_batch_size
   /\ hdf_current_file_ < Len(hdf_filenames_)) =>
    LET loaded_here == HdfRead(hdf_filenames_[hdf_current_file_ + 1],
                               hdf_current_row_,
                               layer_param_.hdf_batch_size - loaded_so_far)
    IN loaded_here > 0 =>
         /\ blob_shape.prefetch_data_[1] = batch_size
         /\ Cardinality(DOMAIN prefetch_data_) = batch_size
         /\ loaded_so_far + loaded_here <= blob_shape.prefetch_data_[1]
====
